---- MODULE Spec2Model ----
(***************************************************************************)
(* A model of TicTacToeGame (src/src/TicTacToeGame.ts): one game object,   *)
(* its two players, its board and its outputs.  Every public call of the   *)
(* game (nextMove, cancel, reset) is one action.  The players are any      *)
(* implementation of TicTacToePlayer: what makeMove returns is an input of *)
(* the nextMove action.  The board (TicTacToeBoard), the cell and the move *)
(* are modelled from their description in spec.md, sections 3 and 4.1.     *)
(* The outputs are distinct observers that implement every handler, as     *)
(* TicTacToeTestOutput does; notified is what the last call announced.     *)
(***************************************************************************)
EXTENDS Integers, Sequences, FiniteSets, TLC

\* How far outside the board the off-board coordinates of a proposed move lie.
Beyond == 1
\* The number of outputs handed to the constructor.
NumOutputs == 2

\* An optional value (T | undefined): the empty set, or the value alone.
None == {}
Some(v) == {v}
TheValue(opt) == CHOOSE v \in opt : TRUE

Symbols == {"X", "O"}
FirstPlayerArgs == {"X", "O", "EMPTY"}
Players == {"playerX", "playerO"}
States == {"IN_PROGRESS", "X_WON", "O_WON", "DRAW", "CANCELLED"}
Coords == 0..2
Positions == Coords \X Coords
Observers == 1..NumOutputs

\* The moves a player may return: any coordinates, on the board or beside
\* it, with a player of movers as the move's player.  makeMove returns a move
\* or nothing.
InputCoords == {0 - Beyond} \cup Coords \cup {2 + Beyond}
Moves(movers) == [row : InputCoords, col : InputCoords, player : movers]
MakeMoveResults(movers) == {None} \cup {Some(m) : m \in Moves(movers)}

VARIABLES
  board,          \* the game's board: the symbol at each position, "EMPTY" where no cell is set
  currentPlayer,  \* the player responsible for the next move
  state,          \* the state of the game
  winningCells,   \* the winning cells, if any
  lastMove,       \* the last move made, if any
  outputs,        \* the outputs the game announces to, in order
  notified,       \* the handler calls made on the outputs by the last call, in order
  lastCall,       \* the last public call: its name, argument, result, and what it met
  seen,           \* the game as its accessors showed it to the handlers the last call called, if any
  successes,      \* the number of nextMove() calls that returned SUCCESS since the game was constructed or reset
  endedSinceStart,\* per output: its onGameOver calls since its last onGameStart call
  nextMoveOf,     \* TicTacToeManualPlayer.nextMove of each player: the staged move, if any
  alwaysHaveMove, \* TicTacToeManualPlayer.alwaysHaveMove of each player
  asked,          \* the players whose makeMove the last call called, in order
  returned,       \* what the last makeMove call returned or threw, if makeMove was called
  calls           \* the number of calls made on the game and its manual players

gameVars == <<board, currentPlayer, state, winningCells, lastMove, outputs, notified, lastCall, seen>>
historyVars == <<successes, endedSinceStart>>
playerVars == <<nextMoveOf, alwaysHaveMove, asked, returned, calls>>
vars == <<gameVars, historyVars, playerVars>>

----------------------------------------------------------------------------
(* TicTacToeBoard, from spec.md 4.1 *)

EmptyBoard == [p \in Positions |-> "EMPTY"]

getEmptyCells(b) == {p \in Positions : b[p] = "EMPTY"}

isValidMove(b, move) ==
  /\ move.row \in Coords
  /\ move.col \in Coords
  /\ b[<<move.row, move.col>>] = "EMPTY"

setCell(b, cell) == [b EXCEPT ![<<cell.row, cell.col>>] = cell.symbol]

\* The 8 winning lines: 3 rows, 3 columns, 2 diagonals.
Lines ==
  { {<<r, 0>>, <<r, 1>>, <<r, 2>>} : r \in Coords }
    \cup { {<<0, c>>, <<1, c>>, <<2, c>>} : c \in Coords }
    \cup { {<<0, 0>>, <<1, 1>>, <<2, 2>>}, {<<0, 2>>, <<1, 1>>, <<2, 0>>} }

LineOf(b, line, symbol) == \A p \in line : b[p] = symbol

CompleteLines(b) == {line \in Lines : \E s \in Symbols : LineOf(b, line, s)}

LineCells(b, line) == {[row |-> p[1], col |-> p[2], symbol |-> b[p]] : p \in line}

WonState(symbol) == IF symbol = "X" THEN "X_WON" ELSE "O_WON"

\* The results getCurrentState may return on board b.  A complete line wins
\* before a full board draws.  With two lines complete at once the line it
\* reports is not said: either may be.
getCurrentState(b) ==
  IF CompleteLines(b) # {}
  THEN { [state |-> WonState(b[CHOOSE p \in line : TRUE]),
          winningCells |-> Some(LineCells(b, line))] : line \in CompleteLines(b) }
  ELSE IF getEmptyCells(b) = {}
       THEN { [state |-> "DRAW", winningCells |-> None] }
       ELSE { [state |-> "IN_PROGRESS", winningCells |-> None] }

----------------------------------------------------------------------------
(* TicTacToeGame *)

\* isOver, were a cancelled game not counted as over.
isOverUnlessCancelled == state \in {"X_WON", "O_WON", "DRAW"}

isOver == state # "IN_PROGRESS"

getCurrentPlayerSymbol == IF currentPlayer = "playerX" THEN "X" ELSE "O"

\* getRandomPlayer: either player, as the random number falls.
getRandomPlayer == Players

getPlayerFromSymbol(symbol) ==
  IF symbol = "X" THEN {"playerX"}
  ELSE IF symbol = "O" THEN {"playerO"}
  ELSE getRandomPlayer

\* outputs.forEach(output => output.<event>?.(this)): one call on each output, in order.
Announce(event) == [i \in 1..Len(outputs) |-> [output |-> outputs[i], event |-> event]]

\* What the accessors of the game return: handlers are called with the game itself.
View(b, s, w, l, c) ==
  [board |-> b, state |-> s, winningCells |-> w, lastMove |-> l, currentPlayer |-> c]

\* The number of calls of handler event on output o in a log of handler calls.
Received(log, o, event) ==
  Cardinality({i \in DOMAIN log : log[i] = [output |-> o, event |-> event]})

\* What the last call met: how the move the player returned stands to the board.
Request(b, mv) ==
  IF mv = None THEN "none"
  ELSE IF TheValue(mv).row \notin Coords \/ TheValue(mv).col \notin Coords THEN "outOfRange"
  ELSE IF b[<<TheValue(mv).row, TheValue(mv).col>>] # "EMPTY" THEN "occupied"
  ELSE "free"

\* The record of a call.  The move is kept when it was placed on the board.
Call(op, arg, result, request, move) ==
  [op |-> op, arg |-> arg, result |-> result, request |-> request, move |-> move, prior |-> state]

\* new TicTacToeGame(playerX, playerO, firstPlayer, ...outputs)
GameInit ==
  /\ board = EmptyBoard
  /\ state = "IN_PROGRESS"
  /\ winningCells = None
  /\ lastMove = None
  /\ outputs = [i \in 1..NumOutputs |-> i]
  /\ \E firstPlayer \in FirstPlayerArgs :
       /\ currentPlayer \in getPlayerFromSymbol(firstPlayer)
       /\ lastCall = [op |-> "constructor", arg |-> firstPlayer, result |-> "NONE",
                      request |-> "notAsked", move |-> None, prior |-> "NONE"]
  /\ notified = Announce("onGameStart")
  /\ seen = Some(View(board, state, winningCells, lastMove, currentPlayer))
  /\ successes = 0
  /\ endedSinceStart = [o \in Observers |-> 0]
  /\ asked = <<>>
  /\ returned = None
  /\ calls = 0

\* The game of two players of any kind: the fields of the manual player are not used.
Init ==
  /\ GameInit
  /\ nextMoveOf = [p \in Players |-> None]
  /\ alwaysHaveMove = [p \in Players |-> TRUE]

\* cancel, were the announcement forgotten.
cancelSilently ==
  IF isOver
  THEN /\ notified' = <<>>
       /\ seen' = None
       /\ UNCHANGED state
  ELSE /\ state' = "CANCELLED"
       /\ notified' = <<>>
       /\ seen' = None

\* cancel, were the isOver guard forgotten.
cancelAlways ==
  /\ state' = "CANCELLED"
  /\ notified' = Announce("onGameOver")
  /\ seen' = Some(View(board, state', winningCells, lastMove, currentPlayer))

cancel ==
  IF isOver
  THEN /\ notified' = <<>>
       /\ seen' = None
       /\ UNCHANGED state
  ELSE /\ state' = "CANCELLED"
       /\ notified' = Announce("onGameOver")
       /\ seen' = Some(View(board, state', winningCells, lastMove, currentPlayer))

\* The cell, were its symbol taken from the move's own player.
NewCellOfMovePlayer(move) ==
  [row |-> move.row, col |-> move.col,
   symbol |-> IF move.player = "playerX" THEN "X" ELSE "O"]

NewCell(move) == [row |-> move.row, col |-> move.col, symbol |-> getCurrentPlayerSymbol]

\* handleMoveMade, were a move announced whatever the state.
handleMoveMadeAnnouncingMove(move) ==
  /\ \E r \in getCurrentState(board') :
       /\ state' = r.state
       /\ winningCells' = r.winningCells
       /\ notified' = Announce("onMove")
  /\ lastMove' = Some(move)
  /\ seen' = Some(View(board', state', winningCells', lastMove', currentPlayer))

\* handleMoveMade, were the winning cells not recorded.
handleMoveMadeWithoutWinningCells(move) ==
  /\ \E r \in getCurrentState(board') :
       /\ state' = r.state
       /\ winningCells' = winningCells
       /\ notified' = IF r.state # "IN_PROGRESS"
                      THEN Announce("onGameOver")
                      ELSE Announce("onMove")
  /\ lastMove' = Some(move)
  /\ seen' = Some(View(board', state', winningCells', lastMove', currentPlayer))

\* handleMoveMade, were the board evaluated as it stood before the move.
handleMoveMadeOnOldBoard(move) ==
  /\ \E r \in getCurrentState(board) :
       /\ state' = r.state
       /\ winningCells' = r.winningCells
       /\ notified' = IF r.state # "IN_PROGRESS"
                      THEN Announce("onGameOver")
                      ELSE Announce("onMove")
  /\ lastMove' = Some(move)
  /\ seen' = Some(View(board', state', winningCells', lastMove', currentPlayer))

\* handleMoveMade, were it reached after nextPlayer.
handleMoveMadeAfterNextPlayer(move) ==
  /\ \E r \in getCurrentState(board') :
       /\ state' = r.state
       /\ winningCells' = r.winningCells
       /\ notified' = IF r.state # "IN_PROGRESS"
                      THEN Announce("onGameOver")
                      ELSE Announce("onMove")
  /\ lastMove' = Some(move)
  /\ seen' = Some(View(board', state', winningCells', lastMove',
                       IF currentPlayer = "playerX" THEN "playerO" ELSE "playerX"))

handleMoveMade(move) ==
  /\ \E r \in getCurrentState(board') :
       /\ state' = r.state
       /\ winningCells' = r.winningCells
       /\ notified' = IF r.state # "IN_PROGRESS"
                      THEN Announce("onGameOver")
                      ELSE Announce("onMove")
  /\ lastMove' = Some(move)
  /\ seen' = Some(View(board', state', winningCells', lastMove', currentPlayer))

\* nextPlayer, were the turn rotated only while the game goes on.
nextPlayerWhileInProgress ==
  currentPlayer' = IF state' # "IN_PROGRESS" THEN currentPlayer
                   ELSE IF currentPlayer = "playerX" THEN "playerO" ELSE "playerX"

nextPlayer == currentPlayer' = IF currentPlayer = "playerX" THEN "playerO" ELSE "playerX"

\* The check of the move, were only its coordinates checked.
MoveRejectedOffBoardOnly(move) == move.row \notin Coords \/ move.col \notin Coords

MoveRejected(move) == ~isValidMove(board, move)

nextMove(mv) ==
  IF isOver
  THEN /\ lastCall' = Call("nextMove", "NONE", "GAME_UNAVAILABLE", "notAsked", None)
       /\ notified' = <<>>
       /\ seen' = None
       /\ UNCHANGED <<board, currentPlayer, state, winningCells, lastMove, outputs>>
  ELSE IF mv = None
  THEN /\ cancel
       /\ lastCall' = Call("nextMove", "NONE", "NO_RESPONSE", Request(board, mv), None)
       /\ UNCHANGED <<board, currentPlayer, winningCells, lastMove, outputs>>
  ELSE IF MoveRejected(TheValue(mv))
  THEN /\ lastCall' = Call("nextMove", "NONE", "INVALID", Request(board, mv), None)
       /\ notified' = <<>>
       /\ seen' = None
       /\ UNCHANGED <<board, currentPlayer, state, winningCells, lastMove, outputs>>
  ELSE /\ board' = setCell(board, NewCell(TheValue(mv)))
       /\ handleMoveMade(TheValue(mv))
       /\ nextPlayer
       /\ lastCall' = Call("nextMove", "NONE", "SUCCESS", Request(board, mv), mv)
       /\ UNCHANGED outputs

\* reset, were the winning cells not cleared.
resetKeepingWinningCells(firstPlayer) ==
  /\ board' = EmptyBoard
  /\ currentPlayer' \in getPlayerFromSymbol(firstPlayer)
  /\ state' = "IN_PROGRESS"
  /\ winningCells' = winningCells
  /\ lastMove' = None
  /\ notified' = Announce("onGameStart")
  /\ seen' = Some(View(board', state', winningCells', lastMove', currentPlayer'))

reset(firstPlayer) ==
  /\ board' = EmptyBoard
  /\ currentPlayer' \in getPlayerFromSymbol(firstPlayer)
  /\ state' = "IN_PROGRESS"
  /\ winningCells' = None
  /\ lastMove' = None
  /\ notified' = Announce("onGameStart")
  /\ seen' = Some(View(board', state', winningCells', lastMove', currentPlayer'))

\* A call of nextMove().  makeMove is asked for a move only while the game is
\* in progress; the move it returns names a player of movers.
CallNextMove(movers) ==
  IF isOver
  THEN nextMove(None)
  ELSE \E mv \in MakeMoveResults(movers) : nextMove(mv)

CallCancel ==
  /\ cancel
  /\ lastCall' = Call("cancel", "NONE", "NONE", "notAsked", None)
  /\ UNCHANGED <<board, currentPlayer, winningCells, lastMove, outputs>>

CallReset ==
  \E firstPlayer \in FirstPlayerArgs :
    /\ reset(firstPlayer)
    /\ lastCall' = Call("reset", firstPlayer, "NONE", "notAsked", None)
    /\ UNCHANGED outputs

\* What the calls leave behind: the SUCCESS results since the game was
\* constructed or reset, and what each output has counted in its handlers.
History ==
  /\ successes' = IF lastCall'.op = "reset" THEN 0
                  ELSE IF lastCall'.op = "nextMove" /\ lastCall'.result = "SUCCESS"
                       THEN successes + 1
                       ELSE successes
  /\ endedSinceStart' =
       IF notified' = <<>>
       THEN endedSinceStart
       ELSE [o \in Observers |->
               IF Received(notified', o, "onGameStart") > 0
               THEN 0
               ELSE endedSinceStart[o] + Received(notified', o, "onGameOver")]

\* Players of any kind: no field of a manual player is read or written.
AnyPlayers == UNCHANGED playerVars

\* The game with players that name themselves in their moves, as
\* TicTacToeManualPlayer does.
Next ==
  \/ CallNextMove({currentPlayer}) /\ History /\ AnyPlayers
  \/ CallCancel /\ History /\ AnyPlayers
  \/ CallReset /\ History /\ AnyPlayers

Spec == Init /\ [][Next]_vars

\* The game with players that may name either player in their moves.
NextAnyMovePlayer ==
  \/ CallNextMove(Players) /\ History /\ AnyPlayers
  \/ CallCancel /\ History /\ AnyPlayers
  \/ CallReset /\ History /\ AnyPlayers

SpecAnyMovePlayer == Init /\ [][NextAnyMovePlayer]_vars

-----------------------------------------------------------------------------
(* TicTacToeManualPlayer: the two players of the game as manual players.   *)

\* The calls made on the game and its players in the behaviours explored.
MaxCalls == 4

\* The coordinates handed to setNext: one on the board and one off it.
StageCoords == {0, 2 + Beyond}

\* What a makeMove call comes to: the Move or undefined it returns, or an
\* error thrown.
Outcome(thrown, mv) == [thrown |-> thrown, move |-> mv]

\* setNext(row, col) on player p.
setNext(p, row, col) ==
  nextMoveOf' = [nextMoveOf EXCEPT ![p] = Some([row |-> row, col |-> col, player |-> p])]

getRandomAnywhere(p, b) ==
  {Outcome(FALSE, Some([row |-> c[1], col |-> c[2], player |-> p])) : c \in Positions}

\* getRandom(board) on player p: a move to any one of the empty cells of the
\* board; with no empty cell the cell indexed is undefined and reading its
\* row throws.
getRandom(p, b) ==
  IF getEmptyCells(b) = {}
  THEN {Outcome(TRUE, None)}
  ELSE {Outcome(FALSE, Some([row |-> c[1], col |-> c[2], player |-> p])) : c \in getEmptyCells(b)}

\* The outcomes makeMove(board) on player p may have.
Outcomes(p, b) ==
  IF nextMoveOf[p] # None
  THEN {Outcome(FALSE, nextMoveOf[p])}
  ELSE IF alwaysHaveMove[p]
       THEN getRandom(p, b)
       ELSE {Outcome(FALSE, None)}

makeMoveKeepingNext(p, b, out) ==
  /\ out \in Outcomes(p, b)
  /\ UNCHANGED nextMoveOf

\* makeMove(board) on player p, with its outcome.
makeMove(p, b, out) ==
  /\ out \in Outcomes(p, b)
  /\ IF nextMoveOf[p] # None
     THEN nextMoveOf' = [nextMoveOf EXCEPT ![p] = None]
     ELSE UNCHANGED nextMoveOf

\* A call that is not a call of the game leaves the game as it is.
GameUntouched ==
  /\ notified' = <<>>
  /\ seen' = None
  /\ UNCHANGED <<board, currentPlayer, state, winningCells, lastMove, outputs>>

\* A call that calls makeMove on no player.
NoPlayerAsked ==
  /\ asked' = <<>>
  /\ returned' = None
  /\ UNCHANGED <<nextMoveOf, alwaysHaveMove>>

\* player.setNext(row, col), called by a client.
CallSetNext(p, row, col) ==
  /\ setNext(p, row, col)
  /\ lastCall' = Call("setNext", p, "NONE", "notAsked",
                      Some([row |-> row, col |-> col, player |-> p]))
  /\ asked' = <<>>
  /\ returned' = None
  /\ GameUntouched
  /\ UNCHANGED alwaysHaveMove

\* player.makeMove(game.getBoard()), called by a client and not by the game.
CallMakeMove(p) ==
  \E out \in Outcomes(p, board) :
    /\ makeMove(p, board, out)
    /\ lastCall' = Call("makeMove", p, "NONE", "notAsked", None)
    /\ asked' = <<p>>
    /\ returned' = Some(out)
    /\ GameUntouched
    /\ UNCHANGED alwaysHaveMove

nextMoveAskingFirst ==
  \E out \in Outcomes(currentPlayer, board) :
    /\ makeMove(currentPlayer, board, out)
    /\ asked' = <<currentPlayer>>
    /\ returned' = Some(out)
    /\ UNCHANGED alwaysHaveMove
    /\ IF out.thrown
       THEN /\ lastCall' = Call("nextMove", "NONE", "THROWN", "notAsked", None)
            /\ GameUntouched
       ELSE nextMove(IF isOver THEN None ELSE out.move)

\* game.nextMove() with manual players: the game, when it is not over, calls
\* makeMove on its current player; an error thrown there leaves nextMove
\* before it has changed anything.
nextMoveOfManualPlayers ==
  IF isOver
  THEN /\ nextMove(None)
       /\ NoPlayerAsked
  ELSE \E out \in Outcomes(currentPlayer, board) :
         /\ makeMove(currentPlayer, board, out)
         /\ asked' = <<currentPlayer>>
         /\ returned' = Some(out)
         /\ UNCHANGED alwaysHaveMove
         /\ IF out.thrown
            THEN /\ lastCall' = Call("nextMove", "NONE", "THROWN", "notAsked", None)
                 /\ GameUntouched
            ELSE nextMove(out.move)

\* new TicTacToeManualPlayer(name, alwaysHaveMove), twice, and the game of the two.
InitManual ==
  /\ GameInit
  /\ nextMoveOf = [p \in Players |-> None]
  /\ alwaysHaveMove \in [Players -> BOOLEAN]

Tick ==
  /\ calls < MaxCalls
  /\ calls' = calls + 1

\* The game of two manual players of either kind, with clients that stage
\* moves and call makeMove themselves, up to MaxCalls calls.
NextManual ==
  \/ \E p \in Players : \E row, col \in StageCoords :
       Tick /\ CallSetNext(p, row, col) /\ History
  \/ \E p \in Players : Tick /\ CallMakeMove(p) /\ History
  \/ Tick /\ nextMoveOfManualPlayers /\ History
  \/ Tick /\ CallCancel /\ NoPlayerAsked /\ History
  \/ Tick /\ CallReset /\ NoPlayerAsked /\ History

SpecManual == InitManual /\ [][NextManual]_vars

\* The game of two manual players that always have a move and are never
\* staged one, played by nextMove() alone, with clients that call makeMove
\* themselves and reset the game.
NextAlwaysHaveMove ==
  \/ nextMoveOfManualPlayers /\ History /\ UNCHANGED calls
  \/ \E p \in Players : CallMakeMove(p) /\ History /\ UNCHANGED calls
  \/ CallReset /\ NoPlayerAsked /\ History /\ UNCHANGED calls

SpecAlwaysHaveMove == Init /\ [][NextAlwaysHaveMove]_vars

\* player.setNext(row, col) on the current player of a game in progress,
\* followed by game.nextMove(), as the tests play: makeMove returns the move
\* just staged and clears it.
CallSetNextThenNextMove(row, col) ==
  /\ ~isOver
  /\ nextMoveOf[currentPlayer] = None
  /\ LET staged == [row |-> row, col |-> col, player |-> currentPlayer]
     IN /\ nextMove(Some(staged))
        /\ asked' = <<currentPlayer>>
        /\ returned' = Some(Outcome(FALSE, Some(staged)))
  /\ UNCHANGED <<nextMoveOf, alwaysHaveMove>>

\* The game of two manual players that always have a move, played by
\* nextMove() with or without a move staged just before, cancelled and reset.
NextPlay ==
  \/ nextMoveOfManualPlayers /\ History /\ UNCHANGED calls
  \/ \E row, col \in StageCoords :
       CallSetNextThenNextMove(row, col) /\ History /\ UNCHANGED calls
  \/ CallCancel /\ NoPlayerAsked /\ History /\ UNCHANGED calls
  \/ CallReset /\ NoPlayerAsked /\ History /\ UNCHANGED calls

SpecPlay == Init /\ [][NextPlay]_vars

----------------------------------------------------------------------------
(* The claims.  A step is a call of nextMove, cancel or reset; lastCall'    *)
(* tells which, with its result, and the unprimed variables are the game    *)
(* as the call found it.                                                    *)

Returned(result) == lastCall'.op = "nextMove" /\ lastCall'.result = result

RegisteredOutputs == {outputs[i] : i \in DOMAIN outputs}

\* Every output was called once on handler event and not at all on handler other.
EachReceivedOnce(log, event, other) ==
  \A o \in RegisteredOutputs :
    /\ Received(log, o, event) = 1
    /\ Received(log, o, other) = 0

\* C1: nextMove() on a game that is not IN_PROGRESS returns GAME_UNAVAILABLE,
\* leaves state, board, last move, winning cells and current player unchanged
\* and calls no handler of any output.
C1_NextMoveWhenOver ==
  [][ (lastCall'.op = "nextMove" /\ state # "IN_PROGRESS")
        => /\ lastCall'.result = "GAME_UNAVAILABLE"
           /\ UNCHANGED <<state, board, lastMove, winningCells, currentPlayer>>
           /\ notified' = <<>> ]_vars

\* C1 has acted: nextMove() was called on a game that player O had won.
C1_Witness ==
  /\ lastCall.op = "nextMove"
  /\ lastCall.result = "GAME_UNAVAILABLE"
  /\ lastCall.prior = "O_WON"
  /\ state = "O_WON"
  /\ winningCells # None
  /\ notified = <<>>

\* C2: nextMove() on an IN_PROGRESS game whose current player returns no move
\* returns NO_RESPONSE, sets the state to CANCELLED, calls onGameOver exactly
\* once and onMove not at all on every output, and leaves board, last move and
\* current player unchanged.
C2_NoResponseCancels ==
  [][ (lastCall'.op = "nextMove" /\ state = "IN_PROGRESS" /\ lastCall'.request = "none")
        => /\ lastCall'.result = "NO_RESPONSE"
           /\ state' = "CANCELLED"
           /\ EachReceivedOnce(notified', "onGameOver", "onMove")
           /\ UNCHANGED <<board, lastMove, currentPlayer>> ]_vars

\* C2 has acted: a game with moves made was cancelled by a player returning no move.
C2_Witness ==
  /\ lastCall.op = "nextMove"
  /\ lastCall.result = "NO_RESPONSE"
  /\ lastCall.request = "none"
  /\ state = "CANCELLED"
  /\ lastMove # None
  /\ Cardinality(getEmptyCells(board)) = 5
  /\ RegisteredOutputs # {}
  /\ EachReceivedOnce(notified, "onGameOver", "onMove")

\* C3: nextMove() on an IN_PROGRESS game whose current player returns a move
\* with a row or column outside 0..2, or on an occupied position, returns
\* INVALID, leaves state, board, last move, winning cells and current player
\* unchanged and calls no handler of any output.
C3_InvalidMoveRejected ==
  [][ (lastCall'.op = "nextMove" /\ state = "IN_PROGRESS"
         /\ lastCall'.request \in {"outOfRange", "occupied"})
        => /\ lastCall'.result = "INVALID"
           /\ UNCHANGED <<state, board, lastMove, winningCells, currentPlayer>>
           /\ notified' = <<>> ]_vars

\* C3 has acted: a position already played was proposed again and refused.
C3_Witness ==
  /\ lastCall.op = "nextMove"
  /\ lastCall.result = "INVALID"
  /\ lastCall.request = "occupied"
  /\ state = "IN_PROGRESS"
  /\ lastMove # None
  /\ notified = <<>>

\* C4: when nextMove() returns SUCCESS exactly one position of the board has
\* changed: the one of the returned move, from empty to the symbol of the
\* player that was current at the call, whatever the move's own player field;
\* and the last move is that move.
C4_SuccessPlacesOneCell ==
  [][ Returned("SUCCESS")
        => /\ lastCall'.move # None
           /\ lastMove' = lastCall'.move
           /\ LET move == TheValue(lastCall'.move)
                  at == <<move.row, move.col>>
              IN /\ at \in Positions
                 /\ board[at] = "EMPTY"
                 /\ board'[at] = (IF currentPlayer = "playerX" THEN "X" ELSE "O")
                 /\ \A p \in Positions \ {at} : board'[p] = board[p] ]_vars

\* C4 has acted: player O placed an O with a move tagged with player X.
C4_Witness ==
  /\ lastCall.op = "nextMove"
  /\ lastCall.result = "SUCCESS"
  /\ lastMove # None
  /\ TheValue(lastMove).player = "playerX"
  /\ currentPlayer = "playerX"
  /\ board[<<TheValue(lastMove).row, TheValue(lastMove).col>>] = "O"

\* C5: after nextMove() returning SUCCESS the current player is the other
\* player, also when the move ended the game; after nextMove() returning
\* INVALID, NO_RESPONSE or GAME_UNAVAILABLE, and after cancel(), the current
\* player is unchanged.
C5_TurnRotation ==
  [][ /\ Returned("SUCCESS")
        => /\ currentPlayer' \in Players
           /\ currentPlayer' # currentPlayer
      /\ (Returned("INVALID") \/ Returned("NO_RESPONSE") \/ Returned("GAME_UNAVAILABLE")
            \/ lastCall'.op = "cancel")
        => UNCHANGED currentPlayer ]_vars

\* C5 has acted: player X made the winning move and the turn went to player O.
C5_Witness ==
  /\ lastCall.op = "nextMove"
  /\ lastCall.result = "SUCCESS"
  /\ state = "X_WON"
  /\ currentPlayer = "playerO"

\* C6: nextMove() returning SUCCESS calls exactly one handler on every output:
\* onGameOver (and not onMove) if the board is terminal after the move (a
\* complete line or no empty position), otherwise onMove (and not onGameOver).
C6_SuccessNotifiesOnce ==
  [][ Returned("SUCCESS")
        => /\ Len(notified') = Cardinality(RegisteredOutputs)
           /\ IF CompleteLines(board') # {} \/ getEmptyCells(board') = {}
              THEN EachReceivedOnce(notified', "onGameOver", "onMove")
              ELSE EachReceivedOnce(notified', "onMove", "onGameOver") ]_vars

\* C6 has acted: a move that did not end the game was announced as a move.
C6_Witness ==
  /\ lastCall.op = "nextMove"
  /\ lastCall.result = "SUCCESS"
  /\ state = "IN_PROGRESS"
  /\ RegisteredOutputs # {}
  /\ EachReceivedOnce(notified, "onMove", "onGameOver")

\* The line is one of a symbol on board b.
LineSymbol(b, line) == b[CHOOSE p \in line : TRUE]

\* The coordinate pairs of the winning cells.
WinningPositions(cells) == {<<c.row, c.col>> : c \in TheValue(cells)}

\* C7 as stated: for each of the 8 lines, when a successful move fills that
\* line with one symbol in a game with no earlier win, the state becomes that
\* symbol's WON state, the winning cells are exactly the line's three
\* positions, and every output gets one onGameOver call.
C7_AsStated ==
  [][ (Returned("SUCCESS") /\ CompleteLines(board) = {})
        => \A line \in CompleteLines(board') :
             /\ state' = WonState(LineSymbol(board', line))
             /\ winningCells' # None
             /\ WinningPositions(winningCells') = line
             /\ EachReceivedOnce(notified', "onGameOver", "onMove") ]_vars

\* C7, amended: for each of the 8 lines, when a successful move fills that
\* line with one symbol in a game with no earlier win, the state becomes that
\* symbol's WON state, winning cells are set, and every output gets one
\* onGameOver call; if the move completes no other line, the winning cells
\* are exactly that line's three cells, each with the winning symbol.
C7_LineWins ==
  [][ (Returned("SUCCESS") /\ CompleteLines(board) = {})
        => \A line \in CompleteLines(board') :
             /\ state' = WonState(LineSymbol(board', line))
             /\ winningCells' # None
             /\ (CompleteLines(board') = {line})
                  => /\ WinningPositions(winningCells') = line
                     /\ \A c \in TheValue(winningCells') : c.symbol = LineSymbol(board', line)
             /\ EachReceivedOnce(notified', "onGameOver", "onMove") ]_vars

\* C7 has acted: X(0,0), O(1,0), X(0,1), O(1,1), X(0,2) and X has won on the top row.
C7_Witness ==
  /\ lastCall.op = "nextMove"
  /\ lastCall.result = "SUCCESS"
  /\ \A p \in Positions :
       board[p] = (IF p[1] = 0 THEN "X" ELSE IF p[1] = 1 /\ p[2] < 2 THEN "O" ELSE "EMPTY")
  /\ TheValue(lastMove).row = 0
  /\ TheValue(lastMove).col = 2
  /\ state = "X_WON"
  /\ WinningPositions(winningCells) = {<<0, 0>>, <<0, 1>>, <<0, 2>>}
  /\ RegisteredOutputs # {}
  /\ EachReceivedOnce(notified, "onGameOver", "onMove")

\* C8: when a successful move fills the ninth position and no line is
\* complete, the state becomes DRAW with no winning cells; when the ninth
\* position completes a line, the state is the mover's WON state, not DRAW.
C8_DrawAndPrecedence ==
  [][ (Returned("SUCCESS") /\ getEmptyCells(board') = {})
        => IF CompleteLines(board') = {}
           THEN state' = "DRAW" /\ winningCells' = None
           ELSE /\ state' = WonState(IF currentPlayer = "playerX" THEN "X" ELSE "O")
                /\ state' # "DRAW" ]_vars

\* C8 has acted: the ninth move completed a line and the game is won, not drawn.
C8_Witness ==
  /\ lastCall.op = "nextMove"
  /\ lastCall.result = "SUCCESS"
  /\ getEmptyCells(board) = {}
  /\ CompleteLines(board) # {}
  /\ state \in {"X_WON", "O_WON"}

\* C9: reset(preference), from any state of the game, yields state
\* IN_PROGRESS, an empty board, no last move, no winning cells, the X player
\* as current player for preference X, the O player for O and one of the two
\* for EMPTY, and calls onGameStart once and onGameOver not at all on every
\* output.
C9_Reset ==
  [][ lastCall'.op = "reset"
        => /\ state' = "IN_PROGRESS"
           /\ board' = EmptyBoard
           /\ lastMove' = None
           /\ winningCells' = None
           /\ lastCall'.arg = "X" => currentPlayer' = "playerX"
           /\ lastCall'.arg = "O" => currentPlayer' = "playerO"
           /\ currentPlayer' \in Players
           /\ EachReceivedOnce(notified', "onGameStart", "onGameOver") ]_vars

\* C9 has acted: a game in progress was reset with no preference, and player O starts.
C9_Witness ==
  /\ lastCall.op = "reset"
  /\ lastCall.arg = "EMPTY"
  /\ lastCall.prior = "IN_PROGRESS"
  /\ currentPlayer = "playerO"
  /\ state = "IN_PROGRESS"
  /\ board = EmptyBoard
  /\ RegisteredOutputs # {}
  /\ EachReceivedOnce(notified, "onGameStart", "onGameOver")

\* C10: cancel() on an IN_PROGRESS game sets the state to CANCELLED and calls
\* onGameOver once on every output, leaving board, last move, winning cells
\* and current player unchanged; cancel() on a game that is over changes
\* nothing and calls no handler.
C10_Cancel ==
  [][ lastCall'.op = "cancel"
        => IF state = "IN_PROGRESS"
           THEN /\ state' = "CANCELLED"
                /\ EachReceivedOnce(notified', "onGameOver", "onMove")
                /\ Len(notified') = Cardinality(RegisteredOutputs)
                /\ UNCHANGED <<board, lastMove, winningCells, currentPlayer>>
           ELSE /\ UNCHANGED <<state, board, lastMove, winningCells, currentPlayer>>
                /\ notified' = <<>> ]_vars

\* C10 has acted: cancel() was called on a won game, which keeps its state and winning cells.
C10_Witness ==
  /\ lastCall.op = "cancel"
  /\ lastCall.prior = "X_WON"
  /\ state = "X_WON"
  /\ winningCells # None
  /\ notified = <<>>

Terminal == States \ {"IN_PROGRESS"}

\* C11: the state changes only from IN_PROGRESS to X_WON, O_WON, DRAW or
\* CANCELLED, by nextMove() or cancel(), or from any state to IN_PROGRESS
\* with an empty board, by reset(); a terminal state never changes to a
\* different terminal state and is left only by reset().
C11_StateTransitions ==
  [][ /\ state' # state
        => \/ /\ state = "IN_PROGRESS"
              /\ state' \in Terminal
              /\ lastCall'.op \in {"nextMove", "cancel"}
           \/ /\ state' = "IN_PROGRESS"
              /\ board' = EmptyBoard
              /\ lastCall'.op = "reset"
      /\ (state \in Terminal /\ lastCall'.op # "reset") => state' = state
      /\ lastCall'.op = "reset" => (state' = "IN_PROGRESS" /\ board' = EmptyBoard) ]_vars

\* C11 has acted: a game won by O, a terminal state, was left by reset().
C11_Witness ==
  /\ lastCall.op = "reset"
  /\ lastCall.prior = "O_WON"
  /\ state = "IN_PROGRESS"
  /\ board = EmptyBoard

-----------------------------------------------------------------------------
(* The claims about the manual players.  asked' tells whose makeMove the    *)
(* call called, returned' what it came to.                                  *)

OtherPlayer(p) == CHOOSE q \in Players : q # p

\* C12 as stated: each nextMove() invocation calls makeMove(board) exactly
\* once on the player that is current when nextMove is invoked, and never on
\* the other player.
C12_AsStated ==
  [][ lastCall'.op = "nextMove" => asked' = <<currentPlayer>> ]_vars

\* C12: each nextMove() invocation on a game that is IN_PROGRESS calls
\* makeMove(board) exactly once on the player that is current when nextMove
\* is invoked, and never on the other player, whose staged move stays; a
\* nextMove() invocation on a game that is over calls makeMove on neither
\* player, and every staged move stays.
C12_MakeMoveOncePerMove ==
  [][ lastCall'.op = "nextMove"
        => IF state = "IN_PROGRESS"
           THEN /\ asked' = <<currentPlayer>>
                /\ nextMoveOf'[currentPlayer] = None
                /\ nextMoveOf'[OtherPlayer(currentPlayer)] = nextMoveOf[OtherPlayer(currentPlayer)]
           ELSE /\ asked' = <<>>
                /\ returned' = None
                /\ nextMoveOf' = nextMoveOf ]_vars

\* C12 has acted: both players had a move staged, nextMove() asked the first
\* player alone and placed its move; the second player's move is still staged.
C12_Witness ==
  /\ lastCall.op = "nextMove"
  /\ lastCall.result = "SUCCESS"
  /\ asked = <<OtherPlayer(currentPlayer)>>
  /\ nextMoveOf[OtherPlayer(currentPlayer)] = None
  /\ nextMoveOf[currentPlayer] # None

\* C13: a move staged with setNext(row, col) on a manual player is one-shot.
\* setNext stages a Move of exactly those coordinates and that player; it
\* stays staged until the next makeMove call on that player, made by the
\* game or not, which returns it, accepted by the game or not, and clears
\* it; a makeMove call on a player with no staged move that is not
\* configured to always have a move returns none; so for such a player a
\* nextMove() that returned INVALID, followed at once by nextMove(), returns
\* NO_RESPONSE and cancels the game.
C13_StagedMoveOneShot ==
  [][ /\ lastCall'.op = "setNext"
        => /\ nextMoveOf'[lastCall'.arg] = lastCall'.move
           /\ TheValue(nextMoveOf'[lastCall'.arg]).player = lastCall'.arg
      /\ \A p \in Players :
           /\ (asked' = <<p>> /\ nextMoveOf[p] # None)
                => /\ returned' = Some(Outcome(FALSE, nextMoveOf[p]))
                   /\ nextMoveOf'[p] = None
           /\ (asked' = <<p>> /\ nextMoveOf[p] = None /\ ~alwaysHaveMove[p])
                => returned' = Some(Outcome(FALSE, None))
           /\ (asked' # <<p>> /\ ~(lastCall'.op = "setNext" /\ lastCall'.arg = p))
                => nextMoveOf'[p] = nextMoveOf[p]
      /\ ( /\ lastCall.op = "nextMove"
           /\ lastCall.result = "INVALID"
           /\ lastCall'.op = "nextMove"
           /\ ~alwaysHaveMove[currentPlayer] )
         => /\ lastCall'.result = "NO_RESPONSE"
            /\ state' = "CANCELLED" ]_vars

\* C13 has acted: a player that does not always have a move had a move off the
\* board staged; nextMove() asked for it, got it, rejected it, and it is staged
\* no more.
C13_Witness ==
  /\ lastCall.op = "nextMove"
  /\ lastCall.result = "INVALID"
  /\ lastCall.request = "outOfRange"
  /\ asked = <<currentPlayer>>
  /\ ~alwaysHaveMove[currentPlayer]
  /\ returned = Some(Outcome(FALSE, Some([row |-> 2 + Beyond, col |-> 0, player |-> currentPlayer])))
  /\ nextMoveOf[currentPlayer] = None

\* A move of player p to one of the empty cells of board b.
RandomMoves(p, b) ==
  {Outcome(FALSE, Some([row |-> c[1], col |-> c[2], player |-> p])) : c \in getEmptyCells(b)}

-----------------------------------------------------------------------------
(* More claims about the game of two players of any kind.                   *)

\* C15: the winning cells, when set, are not empty, and every winning cell is
\* a cell of the board, of the same coordinates and symbol, as the winning
\* move left it.
C15_WinningCellsOnBoard ==
  winningCells # None
    => /\ TheValue(winningCells) # {}
       /\ \A c \in TheValue(winningCells) :
            /\ <<c.row, c.col>> \in Positions
            /\ c.symbol # "EMPTY"
            /\ board[<<c.row, c.col>>] = c.symbol
       /\ lastMove # None
       /\ <<TheValue(lastMove).row, TheValue(lastMove).col>> \in WinningPositions(winningCells)

\* C15 has acted: X won with the cells of the middle column.
C15_Witness ==
  /\ state = "X_WON"
  /\ winningCells # None
  /\ WinningPositions(winningCells) = {<<0, 1>>, <<1, 1>>, <<2, 1>>}
  /\ \A c \in TheValue(winningCells) : c.symbol = "X" /\ board[<<c.row, c.col>>] = "X"

\* C16: within a successful nextMove() the cell is applied, then state,
\* winning cells and last move are updated, then the outputs are called, then
\* the turn rotates: what a handler called with the move or game-over
\* notification sees is a board that holds the new cell, the state and last
\* move that reflect it, and as current player the player who made the move;
\* the other player is current when nextMove() returns.
C16_OrderWithinNextMove ==
  [][ Returned("SUCCESS")
        => /\ seen' # None
           /\ LET game == TheValue(seen')
                  move == TheValue(lastCall'.move)
              IN /\ board[<<move.row, move.col>>] = "EMPTY"
                 /\ game.board[<<move.row, move.col>>] = getCurrentPlayerSymbol
                 /\ game.board = board'
                 /\ game.state = state'
                 /\ [state |-> game.state, winningCells |-> game.winningCells]
                      \in getCurrentState(game.board)
                 /\ game.winningCells = winningCells'
                 /\ game.lastMove = Some(move)
                 /\ game.currentPlayer = currentPlayer
                 /\ game.currentPlayer = move.player
                 /\ currentPlayer' # game.currentPlayer
           /\ EachReceivedOnce(notified', IF state' = "IN_PROGRESS" THEN "onMove" ELSE "onGameOver",
                               IF state' = "IN_PROGRESS" THEN "onGameOver" ELSE "onMove") ]_vars

\* C16 has acted: the outputs were called with onGameOver for the move by
\* which X won, and saw X as the current player; O is current now.
C16_Witness ==
  /\ lastCall.op = "nextMove"
  /\ lastCall.result = "SUCCESS"
  /\ state = "X_WON"
  /\ seen # None
  /\ TheValue(seen).currentPlayer = "playerX"
  /\ TheValue(seen).state = "X_WON"
  /\ TheValue(seen).lastMove = lastMove
  /\ TheValue(seen).board = board
  /\ currentPlayer = "playerO"
  /\ RegisteredOutputs # {}
  /\ EachReceivedOnce(notified, "onGameOver", "onMove")

\* C17: over any sequence of nextMove, cancel and reset calls, whatever moves
\* the players return, the game applies a cell only to a position of the
\* board that is empty, the board holds one symbol at each of its nine
\* positions and none elsewhere, and a cell once placed is neither changed
\* nor removed until reset().
C17_CellsPlacedOnce ==
  [][ /\ DOMAIN board' = Positions
      /\ lastCall'.op # "reset"
           => /\ \A p \in Positions : board[p] # "EMPTY" => board'[p] = board[p]
              /\ lastCall'.request \in {"none", "outOfRange", "occupied", "notAsked"}
                   => board' = board
              /\ board' # board
                   => /\ Returned("SUCCESS")
                      /\ LET move == TheValue(lastCall'.move)
                         IN /\ <<move.row, move.col>> \in Positions
                            /\ board[<<move.row, move.col>>] = "EMPTY"
                            /\ board'[<<move.row, move.col>>] \in {"X", "O"}
                            /\ \A p \in Positions \ {<<move.row, move.col>>} :
                                 board'[p] = board[p] ]_vars

\* C17 has acted: with seven cells placed, a move to an occupied position was
\* rejected.
C17_Witness ==
  /\ lastCall.op = "nextMove"
  /\ lastCall.result = "INVALID"
  /\ lastCall.request = "occupied"
  /\ successes = 7
  /\ Cardinality(getEmptyCells(board)) = 2

\* C18: when the state is not CANCELLED the state and the winning cells are
\* what getCurrentState computes for the board as it is; when the state is
\* CANCELLED there are no winning cells and the board evaluates to
\* IN_PROGRESS; so a game in progress has an empty cell, and the game, which
\* asks a player for a move only while in progress, never calls makeMove
\* with a full board: a call that asked found the game in progress, and when
\* it placed no cell the board it left, which is the board it gave makeMove,
\* has an empty cell.
C18_StateAgreesWithBoard ==
  /\ state # "CANCELLED"
       => [state |-> state, winningCells |-> winningCells] \in getCurrentState(board)
  /\ state = "CANCELLED"
       => /\ winningCells = None
          /\ getCurrentState(board) = {[state |-> "IN_PROGRESS", winningCells |-> None]}
  /\ state = "IN_PROGRESS" => getEmptyCells(board) # {}
  /\ (lastCall.op = "nextMove" /\ lastCall.request # "notAsked")
       => /\ lastCall.prior = "IN_PROGRESS"
          /\ lastCall.result # "SUCCESS" => getEmptyCells(board) # {}

\* C18 has acted: a game with eight cells placed and no line complete was
\* cancelled.
C18_Witness ==
  /\ state = "CANCELLED"
  /\ lastCall.op = "cancel"
  /\ winningCells = None
  /\ Cardinality(getEmptyCells(board)) = 1
  /\ CompleteLines(board) = {}

\* C19: for an output registered at construction and never removed, over any
\* sequence of nextMove, cancel and reset calls, at most one onGameOver call
\* is made between two consecutive onGameStart calls and after the last one,
\* so that its onGameOver calls never outnumber its onGameStart calls; and a
\* call makes one onGameOver call when it takes the state from IN_PROGRESS to
\* a terminal state, and none otherwise.
C19_GameOverOncePerGame ==
  [][ \A o \in RegisteredOutputs :
        /\ endedSinceStart'[o] <= 1
        /\ endedSinceStart'[o] = (IF state' \in Terminal THEN 1 ELSE 0)
        /\ Received(notified', o, "onGameOver")
             = (IF state = "IN_PROGRESS" /\ state' \in Terminal THEN 1 ELSE 0) ]_vars

\* C19 has acted: a cancelled game was cancelled again, and each output has
\* still one onGameOver call since its last onGameStart call.
C19_Witness ==
  /\ lastCall.op = "cancel"
  /\ lastCall.prior = "CANCELLED"
  /\ RegisteredOutputs # {}
  /\ \A o \in RegisteredOutputs : endedSinceStart[o] = 1
  /\ notified = <<>>

-----------------------------------------------------------------------------
(* The claim about the length of a game.  A nextMove() served by the random *)
(* fallback is one that found no move staged: returned' is then a move      *)
(* getRandom made.                                                          *)

\* C20: between two resets at most 9 nextMove() calls return SUCCESS: each
\* fills one of the nine cells.  With two manual players that always have a
\* move, a nextMove() call on a game in progress with no move staged returns
\* SUCCESS, no nextMove() call cancels the game, and a game with nine such
\* calls behind it is over, as X_WON, O_WON or DRAW: called again and again
\* from a fresh game, nextMove() ends the game within 9 calls.
C20_GameLength ==
  [][ /\ successes' <= 9
      /\ successes' = 9 - Cardinality(getEmptyCells(board'))
      /\ successes' = 9 => state' \in {"X_WON", "O_WON", "DRAW"}
      /\ lastCall'.op = "nextMove"
           => /\ lastCall'.result # "NO_RESPONSE"
              /\ state' = "CANCELLED" => state = "CANCELLED"
              /\ (state = "IN_PROGRESS" /\ TheValue(returned') \in getRandom(currentPlayer, board))
                   => /\ lastCall'.result = "SUCCESS"
                      /\ successes' = successes + 1 ]_vars

\* C20 has acted: the ninth nextMove() call in a row was served by the random
\* fallback, as the eight before it, and ended the game in a draw.
C20_Witness ==
  /\ lastCall.op = "nextMove"
  /\ lastCall.result = "SUCCESS"
  /\ successes = 9
  /\ state = "DRAW"
  /\ getEmptyCells(board) = {}
  /\ returned = Some(Outcome(FALSE, lastMove))

====
